---- MODULE Spec2Model ----
(***************************************************************************)
(* One invocation of the ampy command line (src/ampy/cli.py): board        *)
(* discovery (find_boards), board selection (pass_many_boards,             *)
(* pass_single_board) and the bodies of the four commands devices, logs,   *)
(* flash and build.  The collaborators that cli.py calls but that are not  *)
(* part of cli.py (board_finder, firmware_builder, MpyBoard.flash,         *)
(* update_mpy_repo, clean_mpy_repo) are modelled by their contracts.       *)
(***************************************************************************)
EXTENDS Integers, Sequences, FiniteSets, TLC

\* ------------------------------------------------------------ bounds
NumPorts == 2
MaxBytes == 2

Ports == 1..NumPorts
NoPort == 0

\* ------------------------------------------------------------ values
Chips == {"esp32", "esp8266"}
Commands == {"devices", "logs", "flash", "build"}
DEV_MODULE == "ampy_dev_module"
NoPath == "None"
OutPath == "out.bin"
ArgPath == "firmware_arg.bin"
BuildPath(chip) == IF chip = "esp32" THEN "build-esp32.bin" ELSE "build-esp8266.bin"
Paths == {OutPath, ArgPath} \cup {BuildPath(c) : c \in Chips}
NoFile == [chip |-> "none", builtFor |-> NoPort]

TransferErrors == {"TransferTimeout", "VerificationMismatch"}
FlashErrors == TransferErrors \cup {"PortUnavailable", "UnsupportedProfile"}
Terminal == {"done", "failed", "no_boards", "interrupted"}

\* A board as the prober returns it; a failed detect_board that returns
\* instead of raising yields the value None, kept here with the port it
\* was asked for.
Board(p, c) == [port |-> p, chip |-> c]
NoneBoard(p) == [port |-> p, chip |-> "None"]
IsBoard(b) == b.chip # "None"

VARIABLES
    cmd,        \* the command of this invocation
    cfgPort,    \* ctx.obj["port"]: NoPort when no port is configured
    opts,       \* the options of the command, as click passes them
    pc,         \* position of the invocation
    cand,       \* the ports the enumerator listed
    enumerated, \* whether the port enumeration was run
    probe,      \* per port: "idle", "open", "ok", "failed"
    chipOf,     \* per port: the chip profile the probe identified
    boards,     \* the list find_boards returned, then the selection
    i,          \* index of the board the loop of flash/build is at
    module,     \* build's local variable module
    entrypoint, \* build's local variable entrypoint
    firmware,   \* the path the current iteration flashes
    files,      \* content of the firmware files on disk
    owners,     \* per port: the operations that hold it open
    flashState, \* per port: the flashing state of its board
    written,    \* per port: chip profiles of the artifacts written to it
    calls,      \* how often each collaborator was called
    perBoard,   \* per port: builds, copies and flashes made for its board
    declined,   \* ports whose flash the operator declined
    devMsg,     \* the '--dev' incompatibility message was printed
    bytesOut,   \* bytes the log stream wrote to standard output
    err,        \* the failure that ended the invocation, or "none"
    audit       \* what the collaborators were handed: the arguments of the
                \* builds, the paths flashed, the flashed paths written
                \* again, the ports whose flash the operator accepted

vars == <<cmd, cfgPort, opts, pc, cand, enumerated, probe, chipOf, boards, i,
          module, entrypoint, firmware, files, owners, flashState, written,
          calls, perBoard, declined, devMsg, bytesOut, err, audit>>

inputs == <<cmd, cfgPort, opts>>
discovery == <<cand, enumerated, probe, chipOf>>
locals == <<module, entrypoint, firmware>>

\* ------------------------------------------------------------ helpers
RECURSIVE SeqOfSet(_)
\* the elements of a set of ports in ascending order
SeqOfSet(S) ==
    IF S = {} THEN <<>>
    ELSE LET m == CHOOSE x \in S : \A y \in S : x <= y
         IN <<m>> \o SeqOfSet(S \ {m})

\* the sub-lists of a list, order kept (what a multi-choice prompt returns)
SubLists(s) ==
    { SeqOfSet(K) : K \in SUBSET (1..Len(s)) }

Pick(s, idx) == [k \in 1..Len(idx) |-> s[idx[k]]]

DefaultOpts ==
    [clean |-> FALSE, dev |-> FALSE, module |-> <<>>, entrypoint |-> <<>>,
     yes |-> FALSE, output_path |-> NoPath, firmware |-> NoPath]

BuildOpts ==
    [clean : BOOLEAN, dev : BOOLEAN, module : {<<>>, <<"mod_a.py">>},
     entrypoint : {<<>>, <<"main">>}, yes : BOOLEAN,
     output_path : {NoPath, OutPath}, firmware : {NoPath}]

FlashOpts == {[DefaultOpts EXCEPT !.firmware = ArgPath]}

OptsOf(c) ==
    IF c = "build" THEN BuildOpts
    ELSE IF c = "flash" THEN FlashOpts
    ELSE {DefaultOpts}

ZeroCalls == [clean |-> 0, update |-> 0, warn |-> 0]
ZeroBoard == [build |-> 0, copy |-> 0, flash |-> 0]
NoAudit == [builtWith |-> {}, flashedPaths |-> {}, rewritten |-> {}, accepted |-> {}]

\* ------------------------------------------------------------ Init
Init ==
    /\ cmd \in Commands
    /\ cfgPort \in {NoPort} \cup Ports
    /\ opts \in OptsOf(cmd)
    /\ pc = "start"
    /\ cand = {}
    /\ enumerated = FALSE
    /\ probe = [p \in Ports |-> "idle"]
    /\ chipOf = [p \in Ports |-> "none"]
    /\ boards = <<>>
    /\ i = 0
    /\ module = opts.module
    /\ entrypoint = opts.entrypoint
    /\ firmware = NoPath
    /\ files \in {[f \in Paths |-> IF f = ArgPath /\ cmd = "flash"
                                   THEN [chip |-> c, builtFor |-> NoPort]
                                   ELSE NoFile] : c \in Chips}
    /\ owners = [p \in Ports |-> {}]
    /\ flashState = [p \in Ports |-> "Absent"]
    /\ written = [p \in Ports |-> {}]
    /\ calls = ZeroCalls
    /\ perBoard = [p \in Ports |-> ZeroBoard]
    /\ declined = {}
    /\ devMsg = FALSE
    /\ bytesOut = 0
    /\ err = "none"
    /\ audit = NoAudit

\* ------------------------------------------------------------ discovery
\* a discovery that enumerates the ports whether or not one is configured
FindStart_AlwaysEnumerate ==
    /\ pc = "start"
    /\ cand' \in SUBSET Ports
    /\ enumerated' = TRUE
    /\ pc' = "probing"
    /\ UNCHANGED <<inputs, audit, probe, chipOf, boards, i, locals, files, owners,
                   flashState, written, calls, perBoard, declined, devMsg,
                   bytesOut, err>>

\* find_boards, lines 59-62: an explicit port narrows discovery to one
\* detect_board call; otherwise board_finder.main enumerates the ports.
FindStart ==
    /\ pc = "start"
    /\ IF cfgPort # NoPort
       THEN /\ cand' = {cfgPort}
            /\ enumerated' = FALSE
            /\ pc' = "detect"
       ELSE /\ cand' \in SUBSET Ports
            /\ enumerated' = TRUE
            /\ pc' = "probing"
    /\ UNCHANGED <<inputs, audit, probe, chipOf, boards, i, locals, files, owners,
                   flashState, written, calls, perBoard, declined, devMsg,
                   bytesOut, err>>

\* The prober opens the port with exclusive access: contention fails the
\* probe of that port at once.
ProbeOpen(p) ==
    /\ pc \in {"detect", "probing"}
    /\ p \in cand
    /\ probe[p] = "idle"
    /\ IF owners[p] = {}
       THEN /\ owners' = [owners EXCEPT ![p] = {"probe"}]
            /\ probe' = [probe EXCEPT ![p] = "open"]
       ELSE /\ probe' = [probe EXCEPT ![p] = "failed"]
            /\ UNCHANGED owners
    /\ UNCHANGED <<inputs, audit, pc, cand, enumerated, chipOf, boards, i, locals,
                   files, flashState, written, calls, perBoard, declined,
                   devMsg, bytesOut, err>>

\* The handshake ends: a board with its chip profile, or a timeout or an
\* unparseable answer; the port is closed on every path.
ProbeClose(p) ==
    /\ probe[p] = "open"
    /\ owners' = [owners EXCEPT ![p] = @ \ {"probe"}]
    /\ \/ \E c \in Chips :
            /\ probe' = [probe EXCEPT ![p] = "ok"]
            /\ chipOf' = [chipOf EXCEPT ![p] = c]
            /\ flashState' = [flashState EXCEPT ![p] = "Identified"]
       \/ /\ probe' = [probe EXCEPT ![p] = "failed"]
          /\ UNCHANGED <<chipOf, flashState>>
    /\ UNCHANGED <<inputs, audit, pc, cand, enumerated, boards, i, locals, files,
                   written, calls, perBoard, declined, devMsg, bytesOut, err>>

\* a discovery that returns as soon as one probe has ended
DiscoveryComplete_First ==
    \E p \in cand : probe[p] \in {"ok", "failed"}

\* list(board_finder.main(baud)), line 62, and the single detect_board call,
\* line 60, return only when every probe they started has ended.
DiscoveryComplete ==
    \A p \in cand : probe[p] \in {"ok", "failed"}

\* the boards of the ports whose probe succeeded, one entry per port
IdentifiedBoards ==
    LET ok == SeqOfSet({p \in cand : probe[p] = "ok"})
    IN [k \in 1..Len(ok) |-> Board(ok[k], chipOf[ok[k]])]

\* line 64: if not boards
NoBoards(bs) == bs = <<>>

\* find_boards without a configured port, lines 62-70
FindBoardsAll ==
    /\ pc = "probing"
    /\ DiscoveryComplete
    /\ IF NoBoards(IdentifiedBoards)
       THEN /\ pc' = "no_boards"
            /\ UNCHANGED boards
       ELSE /\ pc' = "found"
            /\ boards' = IdentifiedBoards
    /\ UNCHANGED <<inputs, audit, discovery, i, locals, files, owners, flashState,
                   written, calls, perBoard, declined, devMsg, bytesOut, err>>

\* find_boards with a configured port, lines 60-70: the list always holds
\* the one value detect_board returned, so line 64 never finds it empty.  A
\* failed detect_board either returns a value that is no board or raises.
FindBoardsPort ==
    /\ pc = "detect"
    /\ DiscoveryComplete
    /\ \/ /\ probe[cfgPort] = "ok"
          /\ boards' = <<Board(cfgPort, chipOf[cfgPort])>>
          /\ pc' = IF NoBoards(boards') THEN "no_boards" ELSE "found"
          /\ UNCHANGED err
       \/ /\ probe[cfgPort] = "failed"
          /\ boards' = <<NoneBoard(cfgPort)>>
          /\ pc' = IF NoBoards(boards') THEN "no_boards" ELSE "found"
          /\ UNCHANGED err
       \/ /\ probe[cfgPort] = "failed"
          /\ pc' = "failed"
          /\ err' = "ProbeFailure"
          /\ UNCHANGED boards
    /\ UNCHANGED <<inputs, audit, discovery, i, locals, files, owners, flashState,
                   written, calls, perBoard, declined, devMsg, bytesOut>>

\* ------------------------------------------------------------ selection
\* pass_many_boards, lines 75-87: with more than one board the operator
\* ticks any number of them.
PassManyBoards ==
    /\ pc = "found"
    /\ cmd \in {"flash", "build"}
    /\ IF Len(boards) > 1
       THEN \E sel \in SubLists(boards) : boards' = Pick(boards, sel)
       ELSE UNCHANGED boards
    /\ pc' = "body"
    /\ UNCHANGED <<inputs, audit, discovery, i, locals, files, owners, flashState,
                   written, calls, perBoard, declined, devMsg, bytesOut, err>>

\* pass_single_board, lines 94-106: with more than one board the operator
\* picks exactly one.
PassSingleBoard ==
    /\ pc = "found"
    /\ cmd = "logs"
    /\ IF Len(boards) > 1
       THEN \E k \in 1..Len(boards) : boards' = <<boards[k]>>
       ELSE boards' = <<boards[1]>>
    /\ pc' = "body"
    /\ UNCHANGED <<inputs, audit, discovery, i, locals, files, owners, flashState,
                   written, calls, perBoard, declined, devMsg, bytesOut, err>>

\* devices, lines 116-118: print every board found
Devices ==
    /\ pc = "found"
    /\ cmd = "devices"
    /\ pc' = "done"
    /\ UNCHANGED <<inputs, audit, discovery, boards, i, locals, files, owners,
                   flashState, written, calls, perBoard, declined, devMsg,
                   bytesOut, err>>

\* ------------------------------------------------------------ build
\* a clean that is also run for every development build
CleanRequested_OrDev == opts.clean \/ opts.dev

\* line 182: if clean
CleanRequested == opts.clean

\* line 186: if output_path and len(boards) > 1
AmbiguousOutput == opts.output_path # NoPath /\ Len(boards) > 1

\* lines 194-195: if dev: if module or entrypoint
DevConflict == opts.dev /\ (module # <<>> \/ entrypoint # <<>>)

\* a loop that stops after the first board when the output path is ambiguous
LoopBoards_FirstOnly == IF AmbiguousOutput THEN <<boards[1]>> ELSE boards

\* a loop that visits every board a second time
LoopBoards_Twice == boards \o boards

\* lines 138 and 207: for board in boards
LoopBoards == boards

\* the for loop takes the next board after each iteration
NextIndex(k) == k + 1

\* build, lines 182-184: clean_mpy_repo() and return
BuildClean ==
    /\ pc = "body"
    /\ cmd = "build"
    /\ CleanRequested
    /\ calls' = [calls EXCEPT !.clean = @ + 1]
    /\ \/ pc' = "done" /\ UNCHANGED err
       \/ pc' = "failed" /\ err' = "CleanFailure"
    /\ UNCHANGED <<inputs, audit, discovery, boards, i, locals, files, owners,
                   flashState, written, perBoard, declined, devMsg, bytesOut>>

\* a --dev switch that also takes a request without modules for one
DevModule_WhenEmpty ==
    IF opts.dev \/ module = <<>> THEN <<DEV_MODULE>> ELSE module

\* line 202: if dev: module = [DEV_MODULE]
DevModule == IF opts.dev THEN <<DEV_MODULE>> ELSE module

\* a --dev switch that keeps the entrypoints of the caller
DevEntrypoint_Kept == entrypoint

\* line 203: if dev: entrypoint = []
DevEntrypoint == IF opts.dev THEN <<>> ELSE entrypoint

\* the next write to a path: a path that was handed to a flash before is
\* written again
Rewrite(a, path) ==
    IF path \in a.flashedPaths
    THEN [a EXCEPT !.rewritten = @ \cup {path}]
    ELSE a

\* a build that goes to the loop without updating the source cache
BuildPrologue_NoUpdate ==
    /\ pc = "body"
    /\ cmd = "build"
    /\ ~CleanRequested
    /\ calls' = [calls EXCEPT !.warn = IF AmbiguousOutput THEN @ + 1 ELSE @]
    /\ devMsg' = DevConflict
    /\ module' = DevModule
    /\ entrypoint' = DevEntrypoint
    /\ \/ pc' = "loop" /\ i' = 1 /\ UNCHANGED err
       \/ pc' = "failed" /\ err' = "SourceManagerFailure" /\ UNCHANGED i
    /\ UNCHANGED <<inputs, audit, discovery, boards, firmware, files, owners,
                   flashState, written, perBoard, declined, bytesOut>>

\* build, lines 186-205: the warning, the --dev switch, update_mpy_repo
BuildPrologue ==
    /\ pc = "body"
    /\ cmd = "build"
    /\ ~CleanRequested
    /\ calls' = [calls EXCEPT !.warn = IF AmbiguousOutput THEN @ + 1 ELSE @,
                              !.update = @ + 1]
    /\ devMsg' = DevConflict
    /\ module' = DevModule
    /\ entrypoint' = DevEntrypoint
    /\ \/ pc' = "loop" /\ i' = 1 /\ UNCHANGED err
       \/ pc' = "failed" /\ err' = "SourceManagerFailure" /\ UNCHANGED i
    /\ UNCHANGED <<inputs, audit, discovery, boards, firmware, files, owners,
                   flashState, written, perBoard, declined, bytesOut>>

\* build, lines 207-209: firmware_builder.main for the board the loop is at;
\* a failure of the toolchain is raised out of the loop
BuildFirmware ==
    /\ pc = "loop"
    /\ cmd = "build"
    /\ i <= Len(LoopBoards)
    /\ LET b == LoopBoards[i]
           a == [audit EXCEPT !.builtWith = @ \cup
                    {[modules |-> module, entrypoints |-> entrypoint]}]
       IN
       /\ perBoard' = [perBoard EXCEPT ![b.port].build = @ + 1]
       /\ \/ /\ IsBoard(b)
             /\ files' = [files EXCEPT ![BuildPath(b.chip)] =
                              [chip |-> b.chip, builtFor |-> b.port]]
             /\ firmware' = BuildPath(b.chip)
             /\ audit' = Rewrite(a, BuildPath(b.chip))
             /\ pc' = IF opts.output_path # NoPath THEN "copy" ELSE "confirm"
             /\ UNCHANGED err
          \/ /\ pc' = "failed"
             /\ err' = "BuildFailure"
             /\ audit' = a
             /\ UNCHANGED <<files, firmware>>
    /\ UNCHANGED <<inputs, discovery, boards, i, module, entrypoint, owners,
                   flashState, written, calls, declined, devMsg, bytesOut>>

\* a copy that leaves a file already at the output path as it is
CopyFirmware_KeepExisting ==
    /\ pc = "copy"
    /\ LET b == LoopBoards[i] IN
       /\ perBoard' = [perBoard EXCEPT ![b.port].copy = @ + 1]
       /\ \/ /\ files' = IF files[opts.output_path] = NoFile
                         THEN [files EXCEPT ![opts.output_path] = files[firmware]]
                         ELSE files
             /\ firmware' = opts.output_path
             /\ audit' = Rewrite(audit, opts.output_path)
             /\ pc' = "confirm"
             /\ UNCHANGED err
          \/ /\ pc' = "failed"
             /\ err' = "CopyFailure"
             /\ UNCHANGED <<files, firmware, audit>>
    /\ UNCHANGED <<inputs, discovery, boards, i, module, entrypoint, owners,
                   flashState, written, calls, declined, devMsg, bytesOut>>

\* build, lines 211-213: shutil.copy(firmware, output_path)
CopyFirmware ==
    /\ pc = "copy"
    /\ LET b == LoopBoards[i] IN
       /\ perBoard' = [perBoard EXCEPT ![b.port].copy = @ + 1]
       /\ \/ /\ files' = [files EXCEPT ![opts.output_path] = files[firmware]]
             /\ firmware' = opts.output_path
             /\ audit' = Rewrite(audit, opts.output_path)
             /\ pc' = "confirm"
             /\ UNCHANGED err
          \/ /\ pc' = "failed"
             /\ err' = "CopyFailure"
             /\ UNCHANGED <<files, firmware, audit>>
    /\ UNCHANGED <<inputs, discovery, boards, i, module, entrypoint, owners,
                   flashState, written, calls, declined, devMsg, bytesOut>>

\* a confirmation whose answer is not looked at
Confirm_FlashAnyway ==
    /\ pc = "confirm"
    /\ IF opts.yes
       THEN /\ pc' = "flash"
            /\ UNCHANGED <<i, declined, audit>>
       ELSE \/ /\ pc' = "flash"
               /\ audit' = [audit EXCEPT !.accepted = @ \cup {LoopBoards[i].port}]
               /\ UNCHANGED <<i, declined>>
            \/ /\ pc' = "flash"
               /\ UNCHANGED i
               /\ declined' = declined \cup {LoopBoards[i].port}
               /\ UNCHANGED audit
    /\ UNCHANGED <<inputs, discovery, boards, locals, files, owners,
                   flashState, written, calls, perBoard, devMsg, bytesOut, err>>

\* build, lines 217-221: flash when --yes or when the operator confirms
Confirm ==
    /\ pc = "confirm"
    /\ IF opts.yes
       THEN /\ pc' = "flash"
            /\ UNCHANGED <<i, declined, audit>>
       ELSE \/ /\ pc' = "flash"
               /\ audit' = [audit EXCEPT !.accepted = @ \cup {LoopBoards[i].port}]
               /\ UNCHANGED <<i, declined>>
            \/ /\ pc' = "loop"
               /\ i' = NextIndex(i)
               /\ declined' = declined \cup {LoopBoards[i].port}
               /\ UNCHANGED audit
    /\ UNCHANGED <<inputs, discovery, boards, locals, files, owners,
                   flashState, written, calls, perBoard, devMsg, bytesOut, err>>

\* ------------------------------------------------------------ flash
\* flash, lines 137-138: the loop starts with the firmware path given
FlashBody ==
    /\ pc = "body"
    /\ cmd = "flash"
    /\ firmware' = opts.firmware
    /\ i' = 1
    /\ pc' = "loop"
    /\ UNCHANGED <<inputs, audit, discovery, boards, module, entrypoint, files,
                   owners, flashState, written, calls, perBoard, declined,
                   devMsg, bytesOut, err>>

\* flash, lines 138-139: the next board of the loop
FlashNext ==
    /\ pc = "loop"
    /\ cmd = "flash"
    /\ i <= Len(LoopBoards)
    /\ pc' = "flash"
    /\ UNCHANGED <<inputs, audit, discovery, boards, i, locals, files, owners,
                   flashState, written, calls, perBoard, declined, devMsg,
                   bytesOut, err>>

\* lines 140 and 223: board.flash(Path(firmware)) is entered; a value that
\* is no board has no flash method.  The flasher opens the port of the
\* board with exclusive access.
FlashBegin ==
    /\ pc = "flash"
    /\ LET b == LoopBoards[i] IN
       IF IsBoard(b)
       THEN /\ perBoard' = [perBoard EXCEPT ![b.port].flash = @ + 1]
            /\ flashState' = [flashState EXCEPT ![b.port] = "Flashing"]
            /\ owners' = [owners EXCEPT ![b.port] =
                              IF @ = {} THEN {"flash"} ELSE @]
            /\ audit' = [audit EXCEPT !.flashedPaths = @ \cup {firmware}]
            /\ pc' = "flashing"
            /\ UNCHANGED err
       ELSE /\ pc' = "failed"
            /\ err' = "AttributeError"
            /\ UNCHANGED <<perBoard, flashState, owners, audit>>
    /\ UNCHANGED <<inputs, discovery, boards, i, locals, files, written,
                   calls, declined, devMsg, bytesOut>>

\* a flasher that does not compare the chip profiles
FlashOutcomes_NoProfileCheck(b, path, opened) ==
    IF ~opened
    THEN {[result |-> "PortUnavailable", wrote |-> FALSE]}
    ELSE {[result |-> "Flashed", wrote |-> TRUE]}
         \cup {[result |-> e, wrote |-> TRUE] : e \in TransferErrors}

\* The results the flasher can end with, as [result, wrote]: the artifact's
\* chip profile is not the board's (nothing is written), the port was not
\* available, the transfer succeeded, or it failed on the way.
FlashOutcomes(b, path, opened) ==
    IF files[path].chip # b.chip
    THEN {[result |-> "UnsupportedProfile", wrote |-> FALSE]}
    ELSE IF ~opened
    THEN {[result |-> "PortUnavailable", wrote |-> FALSE]}
    ELSE {[result |-> "Flashed", wrote |-> TRUE]}
         \cup {[result |-> e, wrote |-> TRUE] : e \in TransferErrors}

\* lines 140 and 223: board.flash returns or raises; the port is released
\* on every path, and the loop goes on only after a flash that returned
FlashEnd ==
    /\ pc = "flashing"
    /\ LET b == LoopBoards[i] IN
       \E o \in FlashOutcomes(b, firmware, "flash" \in owners[b.port]) :
          /\ owners' = [owners EXCEPT ![b.port] = @ \ {"flash"}]
          /\ written' = [written EXCEPT ![b.port] =
                          IF o.wrote THEN @ \cup {files[firmware].chip} ELSE @]
          /\ IF o.result = "Flashed"
             THEN /\ flashState' = [flashState EXCEPT ![b.port] = "Flashed"]
                  /\ i' = NextIndex(i)
                  /\ pc' = "loop"
                  /\ UNCHANGED err
             ELSE /\ flashState' = [flashState EXCEPT ![b.port] = "FlashFailed"]
                  /\ pc' = "failed"
                  /\ err' = o.result
                  /\ UNCHANGED i
    /\ UNCHANGED <<inputs, audit, discovery, boards, locals, files, calls, perBoard,
                   declined, devMsg, bytesOut>>

\* lines 138 and 207: the loop of flash or build has no board left
LoopEnd ==
    /\ pc = "loop"
    /\ i > Len(LoopBoards)
    /\ pc' = "done"
    /\ UNCHANGED <<inputs, audit, discovery, boards, i, locals, files, owners,
                   flashState, written, calls, perBoard, declined, devMsg,
                   bytesOut, err>>

\* ------------------------------------------------------------ logs
\* logs, lines 125-127: serial.Serial(board.port, baudrate=board.baud) is
\* opened without asking for exclusive access: on a port another process
\* holds, the open succeeds where the platform shares serial devices and
\* raises where it does not.
LogsOpen ==
    /\ pc = "body"
    /\ cmd = "logs"
    /\ LET b == boards[1] IN
       IF ~IsBoard(b)
       THEN /\ pc' = "failed"
            /\ err' = "AttributeError"
            /\ UNCHANGED owners
       ELSE \/ /\ owners' = [owners EXCEPT ![b.port] = @ \cup {"logs"}]
               /\ pc' = "streaming"
               /\ UNCHANGED err
            \/ /\ owners[b.port] # {}
               /\ pc' = "failed"
               /\ err' = "SerialException"
               /\ UNCHANGED owners
    /\ UNCHANGED <<inputs, audit, discovery, boards, i, locals, files, flashState,
                   written, calls, perBoard, declined, devMsg, bytesOut>>

\* logs, lines 128-130: one byte read and written to standard output
LogsRead ==
    /\ pc = "streaming"
    /\ bytesOut < MaxBytes
    /\ bytesOut' = bytesOut + 1
    /\ UNCHANGED <<inputs, audit, pc, discovery, boards, i, locals, files, owners,
                   flashState, written, calls, perBoard, declined, devMsg, err>>

\* a log stream that leaves the port open when the loop is left
LogsLeave_NoClose ==
    /\ pc = "streaming"
    /\ UNCHANGED owners
    /\ \/ pc' = "interrupted" /\ UNCHANGED err
       \/ pc' = "failed" /\ err' = "SerialException"
    /\ UNCHANGED <<inputs, audit, discovery, boards, i, locals, files, flashState,
                   written, calls, perBoard, declined, devMsg, bytesOut>>

\* logs, line 126: the with block closes the port when the loop is left,
\* by an interrupt of the operator or by a failed read or write
LogsLeave ==
    /\ pc = "streaming"
    /\ owners' = [owners EXCEPT ![boards[1].port] = @ \ {"logs"}]
    /\ \/ pc' = "interrupted" /\ UNCHANGED err
       \/ pc' = "failed" /\ err' = "SerialException"
    /\ UNCHANGED <<inputs, audit, discovery, boards, i, locals, files, flashState,
                   written, calls, perBoard, declined, devMsg, bytesOut>>

\* ------------------------------------------------------------ environment
\* Another process (a second invocation streaming logs, a terminal program)
\* opens a free port, one at a time, or closes the port it holds.
OtherOpen(p) ==
    /\ pc \notin Terminal
    /\ \A q \in Ports : "other" \notin owners[q]
    /\ owners[p] = {}
    /\ owners' = [owners EXCEPT ![p] = {"other"}]
    /\ UNCHANGED <<inputs, audit, pc, discovery, boards, i, locals, files,
                   flashState, written, calls, perBoard, declined, devMsg,
                   bytesOut, err>>

OtherClose(p) ==
    /\ "other" \in owners[p]
    /\ owners' = [owners EXCEPT ![p] = @ \ {"other"}]
    /\ UNCHANGED <<inputs, audit, pc, discovery, boards, i, locals, files,
                   flashState, written, calls, perBoard, declined, devMsg,
                   bytesOut, err>>

\* ------------------------------------------------------------ specification
Next ==
    \/ FindStart
    \/ \E p \in Ports : ProbeOpen(p)
    \/ \E p \in Ports : ProbeClose(p)
    \/ FindBoardsAll
    \/ FindBoardsPort
    \/ PassManyBoards
    \/ PassSingleBoard
    \/ Devices
    \/ BuildClean
    \/ BuildPrologue
    \/ BuildFirmware
    \/ CopyFirmware
    \/ Confirm
    \/ FlashBody
    \/ FlashNext
    \/ FlashBegin
    \/ FlashEnd
    \/ LoopEnd
    \/ LogsOpen
    \/ LogsRead
    \/ LogsLeave
    \/ \E p \in Ports : OtherOpen(p)
    \/ \E p \in Ports : OtherClose(p)

Spec == Init /\ [][Next]_vars

TypeOK ==
    /\ cmd \in Commands
    /\ pc \in {"start", "detect", "probing", "found", "body", "loop", "copy",
               "confirm", "flash", "flashing", "streaming"} \cup Terminal
    /\ \A p \in Ports : owners[p] \subseteq {"probe", "flash", "logs", "other"}
    /\ \A p \in Ports : flashState[p] \in
          {"Absent", "Identified", "Flashing", "Flashed", "FlashFailed"}

\* ------------------------------------------------------------ claims
NoBoardWork == \A p \in Ports : perBoard[p] = ZeroBoard
PerBoardErrors == {"BuildFailure", "CopyFailure"} \cup FlashErrors
Selected == cmd \in {"flash", "build"} /\ pc \notin {"start", "detect", "probing", "found", "no_boards"}

\* C1: a build request with dev=true and a non-empty module or entrypoint
\* list is rejected: no source-cache update, build, copy or flash is ever
\* performed for it, and when the incompatibility is found no I/O (board
\* discovery included) has occurred yet.
C1_DevConflictRejected ==
    (cmd = "build" /\ opts.dev /\ (opts.module # <<>> \/ opts.entrypoint # <<>>))
        => /\ calls.update = 0
           /\ NoBoardWork
           /\ devMsg => (~enumerated /\ \A p \in Ports : probe[p] = "idle")

\* C2: in both discovery modes, when discovery has ended and identified no
\* board, the command has stopped with "No boards detected!" and no update,
\* build, copy, log stream or flash is performed.
C2_NoBoardsStops ==
    (pc \notin {"start", "detect", "probing"} /\ \A p \in Ports : probe[p] # "ok")
        => /\ pc = "no_boards"
           /\ calls.update = 0
           /\ NoBoardWork

\* C3: when flash or build has ended on a failure of building, copying or
\* flashing for one board, every selected board after the failing one still
\* got its own build (build) or flash (flash) attempt.
C3_FailureKeepsOthers ==
    (cmd \in {"flash", "build"} /\ pc = "failed" /\ err \in PerBoardErrors)
        => \A k \in (i + 1)..Len(boards) :
              IF cmd = "build"
              THEN perBoard[boards[k].port].build >= 1
              ELSE perBoard[boards[k].port].flash >= 1

\* C4: every invocation of build with --clean that has ended called
\* clean_mpy_repo exactly once and made no update, build, copy or flash,
\* whatever boards are attached.
C4_CleanAlwaysRuns ==
    (cmd = "build" /\ opts.clean /\ pc \in Terminal)
        => /\ calls.clean = 1
           /\ calls.update = 0
           /\ NoBoardWork

\* C5: in build with an output path and two or more selected boards the
\* ambiguity warning is printed exactly once, before the loop, and it skips
\* no board: every board the loop has passed was built and copied, and was
\* flashed unless the operator declined it (never with --yes); when the
\* command is done this holds of every selected board.  A flash is never
\* made for a board that was not built first.
C5_WarningSkipsNoBoard ==
    (Selected /\ cmd = "build" /\ ~opts.clean
              /\ opts.output_path # NoPath /\ Len(boards) >= 2)
        => /\ calls.warn = (IF pc = "body" THEN 0 ELSE 1)
           /\ opts.yes => declined = {}
           /\ \A p \in Ports : perBoard[p].flash <= perBoard[p].build
           /\ \A k \in 1..Len(boards) :
                 (pc = "done" \/ (pc \in {"loop", "copy", "confirm", "flash", "flashing"} /\ k < i))
                    => LET p == boards[k].port IN
                       /\ perBoard[p].build = 1
                       /\ perBoard[p].copy = 1
                       /\ p \notin declined
                            => perBoard[p].flash = 1 /\ flashState[p] = "Flashed"

\* two boards, an output path, and both built, copied and flashed
C5_Witness ==
    /\ cmd = "build" /\ pc = "done" /\ opts.output_path # NoPath
    /\ Len(boards) = 2 /\ calls.warn = 1
    /\ \A k \in 1..Len(boards) :
          /\ perBoard[boards[k].port] = [build |-> 1, copy |-> 1, flash |-> 1]
          /\ flashState[boards[k].port] = "Flashed"

FlashMoves ==
    {<<"Absent", "Identified">>, <<"Identified", "Flashing">>,
     <<"Flashing", "Flashed">>, <<"Flashing", "FlashFailed">>}

\* C7: per board the flashing state only moves Identified -> Flashing ->
\* Flashed or FlashFailed; within one invocation each board is flashed at
\* most once and a failed flash is never followed by another flash of it.
C7_FlashAtMostOnce ==
    [][\A p \in Ports :
          /\ flashState'[p] # flashState[p]
               => <<flashState[p], flashState'[p]>> \in FlashMoves
          /\ perBoard'[p].flash <= 1]_vars

\* one board was flashed and the flash of the next one failed
C7_Witness ==
    /\ pc = "failed"
    /\ \E p, q \in Ports :
          /\ flashState[p] = "Flashed" /\ perBoard[p].flash = 1
          /\ flashState[q] = "FlashFailed" /\ perBoard[q].flash = 1

\* C8: clean_mpy_repo is called only by build with --clean, at most once;
\* no failure of an update, a build or a flash leads to a clean.
C8_CleanOnlyOnRequest ==
    /\ calls.clean > 0 => (cmd = "build" /\ opts.clean /\ calls.clean = 1)
    /\ (err # "none" /\ ~opts.clean) => calls.clean = 0

\* build --clean has cleaned the cache
C8_Witness ==
    cmd = "build" /\ opts.clean /\ calls.clean = 1 /\ pc = "done"

\* C9: once a build or a flash has begun, discovery is over: every port
\* that was to be probed has been probed (all enumerated ports, or the one
\* configured port), no probe holds a port, and every board worked on is
\* one a finished probe identified.
C9_DiscoveryBeforeWork ==
    (~NoBoardWork \/ pc \in {"copy", "confirm", "flash", "flashing"})
        => /\ \A p \in cand : probe[p] \in {"ok", "failed"}
           /\ \A p \in Ports : "probe" \notin owners[p]
           /\ IF cfgPort # NoPort THEN cand = {cfgPort} ELSE enumerated
           /\ \A k \in 1..Len(boards) :
                 IsBoard(boards[k])
                    => /\ probe[boards[k].port] = "ok"
                       /\ boards[k].chip = chipOf[boards[k].port]

\* a build or flash after an enumeration in which one probe failed
C9_Witness ==
    /\ ~NoBoardWork /\ cfgPort = NoPort
    /\ \E p, q \in cand : probe[p] = "ok" /\ probe[q] = "failed"

\* C10: at every moment a serial port is held by at most one operation
\* among probe, flash and log stream (of this or of another process): an
\* operation on a port that is already open fails instead of sharing it.
C10_PortExclusive ==
    \A p \in Ports : Cardinality(owners[p]) <= 1

LogPorts == {p \in Ports : "logs" \in owners[p]}
InLoop == pc \in {"loop", "copy", "confirm", "flash", "flashing"}
Copies == IF opts.output_path # NoPath THEN 1 ELSE 0

\* C11: logs holds the port of exactly one board while it streams, never
\* ends on its own (it is left only by an interrupt or by a failure), and
\* whenever it is not streaming the port is closed, so that it can be opened
\* again.
C11_LogsStreamClosed ==
    cmd = "logs"
        => /\ pc = "streaming" => (IsBoard(boards[1]) /\ LogPorts = {boards[1].port})
           /\ pc # "streaming" => LogPorts = {}
           /\ pc \in Terminal => pc \in {"no_boards", "interrupted", "failed"}
           /\ bytesOut > 0 => pc \in {"streaming", "interrupted", "failed"}

\* the stream wrote bytes, was interrupted, and the port is free again
C11_Witness ==
    /\ cmd = "logs" /\ pc = "interrupted" /\ bytesOut > 0
    /\ owners[boards[1].port] = {}

\* C12: in build without --clean the source cache is updated exactly once,
\* and with success, before the first build; the boards are taken in turn,
\* and for each the build comes first, then the copy when an output path is
\* given, then the confirmation, then the flash: no board is copied or
\* flashed without its own build having succeeded.
C12_BuildOrder ==
    cmd = "build"
        => /\ calls.update <= 1
           /\ (InLoop \/ ~NoBoardWork)
                 => (~opts.clean /\ calls.update = 1 /\ err # "SourceManagerFailure")
           /\ \A k \in 1..Len(boards) :
                 LET w == perBoard[boards[k].port] IN
                 /\ w.copy <= w.build /\ w.flash <= w.build /\ w.build <= 1
                 /\ w.flash <= (IF opts.output_path # NoPath THEN w.copy ELSE w.build)
                 /\ w.flash > 0 => IsBoard(boards[k])
                 /\ k > i => w = ZeroBoard
                 /\ (k < i /\ pc # "found") => w.build = 1
           /\ pc = "copy" => perBoard[boards[i].port] = [build |-> 1, copy |-> 0, flash |-> 0]
           /\ pc \in {"confirm", "flash"}
                 => perBoard[boards[i].port] = [build |-> 1, copy |-> Copies, flash |-> 0]
           /\ pc = "flashing"
                 => perBoard[boards[i].port] = [build |-> 1, copy |-> Copies, flash |-> 1]

\* the second board is being flashed after its build and its copy
C12_Witness ==
    /\ cmd = "build" /\ pc = "flashing" /\ i = 2 /\ calls.update = 1
    /\ perBoard[boards[2].port] = [build |-> 1, copy |-> 1, flash |-> 1]
    /\ perBoard[boards[1].port].build = 1

StockRequest ==
    /\ cmd = "build" /\ ~opts.clean /\ ~opts.dev
    /\ opts.module = <<>> /\ opts.entrypoint = <<>>

\* C14: a build request with no module, no entrypoint and dev=false is
\* handled like any other: no incompatibility is reported, every build is
\* called with empty modules and empty entrypoints, the artifact of the
\* build is what the flash is handed, and when the command is done every
\* selected board was built, and flashed unless declined.
C14_StockRequestBuilds ==
    StockRequest
        => /\ ~devMsg
           /\ audit.builtWith \subseteq {[modules |-> <<>>, entrypoints |-> <<>>]}
           /\ ~NoBoardWork => audit.builtWith # {}
           /\ (pc \in {"flash", "flashing"} /\ IsBoard(boards[i]))
                 => files[firmware].builtFor = boards[i].port
           /\ (pc = "done" /\ Selected)
                 => \A k \in 1..Len(boards) :
                       /\ perBoard[boards[k].port].build = 1
                       /\ boards[k].port \notin declined
                            => flashState[boards[k].port] = "Flashed"

\* a stock request built and flashed a board
C14_Witness ==
    /\ StockRequest /\ pc = "done" /\ Len(boards) >= 1
    /\ audit.builtWith = {[modules |-> <<>>, entrypoints |-> <<>>]}
    /\ \A k \in 1..Len(boards) : flashState[boards[k].port] = "Flashed"

\* C15: with dev=true every build of the invocation is called with exactly
\* the module list [DEV_MODULE] and an empty entrypoint list, whatever
\* modules and entrypoints the caller gave.
C15_DevBuildsFixedSet ==
    (cmd = "build" /\ opts.dev)
        => /\ audit.builtWith \subseteq {[modules |-> <<DEV_MODULE>>, entrypoints |-> <<>>]}
           /\ ~NoBoardWork => audit.builtWith # {}

\* a --dev build was made although the caller gave a module and an entrypoint
C15_Witness ==
    /\ cmd = "build" /\ opts.dev
    /\ opts.module # <<>> /\ opts.entrypoint # <<>>
    /\ audit.builtWith = {[modules |-> <<DEV_MODULE>>, entrypoints |-> <<>>]}

\* C16: within an invocation no file that was handed to a flash is written
\* or overwritten again.
C16_ArtifactNotMutated ==
    audit.rewritten = {}

\* C17: the body of flash or build never runs with an empty list of boards.
C17_BodyHasBoards ==
    (Selected /\ err # "ProbeFailure") => boards # <<>>

\* C18: in build, the file a board is flashed with holds, for the whole
\* flash, the artifact that was built for that same board, also when the
\* boards share one output path.
C18_FlashedWithOwnBuild ==
    (cmd = "build" /\ pc \in {"flash", "flashing"} /\ IsBoard(boards[i]))
        => files[firmware] = [chip |-> boards[i].chip, builtFor |-> boards[i].port]

\* the second of two boards sharing the output path is being flashed
C18_Witness ==
    /\ cmd = "build" /\ pc = "flashing" /\ i = 2
    /\ firmware = OutPath /\ OutPath \in audit.flashedPaths
    /\ flashState[boards[1].port] = "Flashed"
    /\ files[OutPath].builtFor = boards[2].port

\* C19: in build a board is flashed only with --yes or after the operator
\* accepted the flash of that board, asked after its build; a declined
\* board is not flashed, and the boards after it are still built and asked
\* for.
C19_FlashOnlyOnConsent ==
    cmd = "build"
        => /\ \A p \in Ports :
                 perBoard[p].flash > 0 => (opts.yes \/ p \in audit.accepted)
           /\ \A p \in declined :
                 /\ perBoard[p].flash = 0
                 /\ p \notin audit.accepted
                 /\ flashState[p] = "Identified"
                 /\ written[p] = {}
           /\ \A p \in declined \cup audit.accepted : perBoard[p].build = 1
           /\ opts.yes => (declined = {} /\ audit.accepted = {})
           /\ ~opts.yes
                 => \A k \in 1..Len(boards) :
                       ((pc = "done" /\ Selected /\ ~opts.clean) \/ (InLoop /\ k < i))
                          => /\ perBoard[boards[k].port].build = 1
                             /\ boards[k].port \in declined \cup audit.accepted

\* the first board was declined, the second accepted and flashed
C19_Witness ==
    /\ cmd = "build" /\ pc = "done" /\ Len(boards) = 2
    /\ boards[1].port \in declined /\ perBoard[boards[1].port].flash = 0
    /\ boards[2].port \in audit.accepted /\ flashState[boards[2].port] = "Flashed"

====
